---------------------------- MODULE Spec2Model ----------------------------
(***************************************************************************)
(* PharmaSense-AI: the drug-interaction ingestion pipeline of graphdb.py   *)
(* (canonicalizer, checkpoint file, batch transactions against Neo4j).     *)
(*                                                                         *)
(* Strings are sequences of one-character strings, so that the regular     *)
(* expression of normalize_description (word boundaries, case folding) and *)
(* str.strip() are computed character by character.                        *)
(***************************************************************************)
EXTENDS Naturals, Sequences, FiniteSets

(***************************************************************************)
(* Bounds of the model.                                                    *)
(***************************************************************************)
\* longest input (number of TSV records handed to the import)
MaxLen == 2
\* largest batch size tried (BATCH_SIZE is drawn from 1..MaxBatchSize)
MaxBatchSize == 2
\* number of times the script is started on the same input
MaxRuns == 3
\* number of times the driver re-runs one batch transaction function
MaxRetries == 1

None == "None"

Range(s) == {s[k] : k \in DOMAIN s}

Max(a, b) == IF a >= b THEN a ELSE b

Min(a, b) == IF a <= b THEN a ELSE b

(***************************************************************************)
(* Characters: Python's \w (ASCII part), str.lower, str.isspace.           *)
(***************************************************************************)
UpperCase ==
    <<"A","B","C","D","E","F","G","H","I","J","K","L","M",
      "N","O","P","Q","R","S","T","U","V","W","X","Y","Z">>

LowerCase ==
    <<"a","b","c","d","e","f","g","h","i","j","k","l","m",
      "n","o","p","q","r","s","t","u","v","w","x","y","z">>

Digits == <<"0","1","2","3","4","5","6","7","8","9">>

IsWordChar(c) ==
    c \in Range(UpperCase) \cup Range(LowerCase) \cup Range(Digits) \cup {"_"}

IsSpace(c) == c \in {" ", "\t", "\n", "\r"}

Lower(c) ==
    IF c \in Range(UpperCase)
    THEN LowerCase[CHOOSE k \in DOMAIN UpperCase : UpperCase[k] = c]
    ELSE c

(***************************************************************************)
(* str.strip(): drop leading and trailing whitespace.                      *)
(***************************************************************************)
RECURSIVE LStrip(_)
LStrip(s) ==
    IF s # <<>> /\ IsSpace(Head(s)) THEN LStrip(Tail(s)) ELSE s

RECURSIVE RStrip(_)
RStrip(s) ==
    IF s # <<>> /\ IsSpace(s[Len(s)])
    THEN RStrip(SubSeq(s, 1, Len(s) - 1))
    ELSE s

Strip(s) == RStrip(LStrip(s))

(***************************************************************************)
(* re.sub(r'\b' + re.escape(name) + r'\b', repl, s, flags=re.IGNORECASE).  *)
(* Positions i are 0-based offsets (i characters lie to the left).         *)
(***************************************************************************)
IsWordAt(s, k) == k \in 1..Len(s) /\ IsWordChar(s[k])

\* \b : exactly one of the two neighbouring characters is a word character
WordBoundary(s, i) == IsWordAt(s, i) # IsWordAt(s, i + 1)

\* the escaped name matches literally, ignoring case, between two \b
MatchAt(name, s, i) ==
    /\ i + Len(name) <= Len(s)
    /\ \A k \in 1..Len(name) : Lower(s[i + k]) = Lower(name[k])
    /\ WordBoundary(s, i)
    /\ WordBoundary(s, i + Len(name))

\* leftmost non-overlapping matches, scanning from offset i; an empty match
\* inserts the replacement and the scan moves on by one character
RECURSIVE ReSub(_, _, _, _)
ReSub(name, repl, s, i) ==
    IF i > Len(s) THEN <<>>
    ELSE LET matches == {j \in i..Len(s) : MatchAt(name, s, j)}
         IN  IF matches = {} THEN SubSeq(s, i + 1, Len(s))
             ELSE LET j == CHOOSE m \in matches : \A k \in matches : m <= k
                      next == IF j < Len(s) THEN <<s[j + 1]>> ELSE <<>>
                  IN  SubSeq(s, i + 1, j) \o repl \o
                      (IF Len(name) > 0
                       THEN ReSub(name, repl, s, j + Len(name))
                       ELSE next \o ReSub(name, repl, s, j + 1))

PlaceholderA == <<"<","d","r","u","g","A",">">>

PlaceholderB == <<"<","d","r","u","g","B",">">>

\* mutant: only the first name is replaced
normalize_description_first_only(desc, drug_a, drug_b) ==
    Strip(ReSub(drug_a, PlaceholderA, desc, 0))

normalize_description(desc, drug_a, drug_b) ==
    Strip(ReSub(drug_b, PlaceholderB,
                ReSub(drug_a, PlaceholderA, desc, 0), 0))

(***************************************************************************)
(* f"R{reaction_counter:04d}"                                              *)
(***************************************************************************)
RECURSIVE DecimalDigits(_)
DecimalDigits(n) ==
    IF n < 10 THEN <<Digits[n + 1]>>
    ELSE DecimalDigits(n \div 10) \o <<Digits[(n % 10) + 1]>>

RECURSIVE ZeroPad(_, _)
ZeroPad(s, width) == IF Len(s) >= width THEN s ELSE ZeroPad(<<"0">> \o s, width)

FormatReactionId(reaction_counter) ==
    <<"R">> \o ZeroPad(DecimalDigits(reaction_counter), 4)

(***************************************************************************)
(* The Neo4j graph: four collections, each in creation order.  Nodes are   *)
(* referred to by their id property, edges by the ids of their endpoints.  *)
(***************************************************************************)
EmptyGraph ==
    [drugs |-> <<>>, reactions |-> <<>>, interacts |-> <<>>, has_reaction |-> <<>>]

\* clear_database: delete all relationships, then all nodes
clear_database(g) == EmptyGraph

\* check_existing_data: node_count > 0 or rel_count > 0
HasExistingData(g) ==
    Len(g.drugs) + Len(g.reactions) + Len(g.interacts) + Len(g.has_reaction) > 0

HasDrug(g, drug_id) == \E k \in DOMAIN g.drugs : g.drugs[k].id = drug_id

HasReactionNode(g, reaction_id) ==
    \E k \in DOMAIN g.reactions : g.reactions[k].id = reaction_id

\* mutant: CREATE instead of MERGE
drug_query_create(g, drug_id, drug_name) ==
    [g EXCEPT !.drugs = Append(g.drugs, [id |-> drug_id, name |-> drug_name])]

\* drug_query: MERGE (d:Drug {id}) SET d.name
drug_query(g, drug_id, drug_name) ==
    IF HasDrug(g, drug_id)
    THEN [g EXCEPT !.drugs =
            [k \in DOMAIN g.drugs |->
                IF g.drugs[k].id = drug_id
                THEN [g.drugs[k] EXCEPT !.name = drug_name]
                ELSE g.drugs[k]]]
    ELSE [g EXCEPT !.drugs = Append(g.drugs, [id |-> drug_id, name |-> drug_name])]

\* mutant: CREATE instead of MERGE
reaction_query_create(g, reaction_id, normalized_desc, example_desc) ==
    [g EXCEPT !.reactions =
        Append(g.reactions, [id |-> reaction_id, normalized_desc |-> normalized_desc,
                             example |-> example_desc])]

\* reaction_query: MERGE (r:Reaction {id}) SET r.normalized_desc, r.example
reaction_query(g, reaction_id, normalized_desc, example_desc) ==
    LET node == [id |-> reaction_id, normalized_desc |-> normalized_desc,
                 example |-> example_desc]
    IN  IF HasReactionNode(g, reaction_id)
        THEN [g EXCEPT !.reactions =
                [k \in DOMAIN g.reactions |->
                    IF g.reactions[k].id = reaction_id THEN node
                    ELSE g.reactions[k]]]
        ELSE [g EXCEPT !.reactions = Append(g.reactions, node)]

\* mutant: the query never finds the edge
interaction_check_query_none(g, drug_a_id, drug_b_id) == 0

\* interaction_check_query: count of INTERACTS_WITH edges a -> b
interaction_check_query(g, drug_a_id, drug_b_id) ==
    Cardinality({k \in DOMAIN g.interacts :
                    g.interacts[k].a = drug_a_id /\ g.interacts[k].b = drug_b_id})

\* interaction_query: MATCH both drugs, MERGE the edge, SET i.description
interaction_query(g, drug_a_id, drug_b_id, description) ==
    IF ~(HasDrug(g, drug_a_id) /\ HasDrug(g, drug_b_id)) THEN g
    ELSE IF interaction_check_query(g, drug_a_id, drug_b_id) > 0
    THEN [g EXCEPT !.interacts =
            [k \in DOMAIN g.interacts |->
                IF g.interacts[k].a = drug_a_id /\ g.interacts[k].b = drug_b_id
                THEN [g.interacts[k] EXCEPT !.description = description]
                ELSE g.interacts[k]]]
    ELSE [g EXCEPT !.interacts =
            Append(g.interacts,
                   [a |-> drug_a_id, b |-> drug_b_id, description |-> description])]

\* mutant: the query never finds the edge
reaction_link_check_query_none(g, drug_id, reaction_id) == 0

\* reaction_link_check_query: count of HAS_REACTION edges drug -> reaction
reaction_link_check_query(g, drug_id, reaction_id) ==
    Cardinality({k \in DOMAIN g.has_reaction :
                    /\ g.has_reaction[k].drug = drug_id
                    /\ g.has_reaction[k].reaction = reaction_id})

\* has_reaction_query: MATCH drug and reaction, MERGE the edge
has_reaction_query(g, drug_id, reaction_id) ==
    IF ~(HasDrug(g, drug_id) /\ HasReactionNode(g, reaction_id)) THEN g
    ELSE IF reaction_link_check_query(g, drug_id, reaction_id) > 0 THEN g
    ELSE [g EXCEPT !.has_reaction =
            Append(g.has_reaction, [drug |-> drug_id, reaction |-> reaction_id])]


(***************************************************************************)
(* process_batch, one iteration of its loop over the batch.                *)
(* c is the state the iteration works on: the open transaction's view of   *)
(* the graph (g), the stats dict and reaction_map shared with the caller,  *)
(* and the locals reaction_counter, drugs_seen and batch_errors.           *)
(***************************************************************************)
EmptyMap == [x \in {} |-> <<>>]

NewStats(total) ==
    [total_records |-> total, processed_records |-> 0, drugs_created |-> 0,
     interactions_created |-> 0, interactions_skipped |-> 0,
     reactions_created |-> 0, drug_reaction_links |-> 0,
     drug_reaction_links_skipped |-> 0]

\* lines 168-173: drugs_seen and stats['drugs_created']
TrackDrug(c, drug_id) ==
    IF drug_id \in c.drugs_seen THEN c
    ELSE [c EXCEPT !.drugs_seen = @ \cup {drug_id},
                   !.stats.drugs_created = @ + 1]

\* lines 179-191: the INTERACTS_WITH edge, created or skipped
LinkInteraction(c, drug_a_id, drug_b_id, description) ==
    IF ~(interaction_check_query(c.g, drug_a_id, drug_b_id) > 0)
    THEN [c EXCEPT !.g = interaction_query(c.g, drug_a_id, drug_b_id, description),
                   !.stats.interactions_created = @ + 1]
    ELSE [c EXCEPT !.stats.interactions_skipped = @ + 1]

\* lines 197-206: a Reaction node for a canonical description not yet in reaction_map
RegisterReaction(c, normalized, description) ==
    IF normalized \notin DOMAIN c.reaction_map
    THEN LET reaction_id == FormatReactionId(c.reaction_counter)
         IN  [c EXCEPT
                !.reaction_map = [x \in DOMAIN c.reaction_map \cup {normalized} |->
                                    IF x = normalized THEN reaction_id
                                    ELSE c.reaction_map[x]],
                !.g = reaction_query(c.g, reaction_id, normalized, description),
                !.stats.reactions_created = @ + 1,
                !.reaction_counter = @ + 1]
    ELSE c

\* lines 211-229: one HAS_REACTION edge, created or skipped
LinkReaction(c, drug_id, reaction_id) ==
    IF reaction_link_check_query(c.g, drug_id, reaction_id) = 0
    THEN [c EXCEPT !.g = has_reaction_query(c.g, drug_id, reaction_id),
                   !.stats.drug_reaction_links = @ + 1]
    ELSE [c EXCEPT !.stats.drug_reaction_links_skipped = @ + 1]

\* mutant: the failed record is counted as processed
record_error_counted(c, record_index) ==
    [c EXCEPT !.batch_errors = Append(@, record_index),
              !.stats.processed_records = @ + 1]

\* lines 233-237: the except branch appends to batch_errors and continues
record_error(c, record_index) ==
    [c EXCEPT !.batch_errors = Append(@, record_index)]

process_record(c, record, record_index) ==
    IF Len(record) # 5
    THEN \* the unpacking raises ValueError, caught at line 233
         record_error(c, record_index)
    ELSE LET drug_a_id   == Strip(record[1])
             drug_a_name == Strip(record[2])
             drug_b_id   == Strip(record[3])
             drug_b_name == Strip(record[4])
             description == Strip(record[5])
             c1 == TrackDrug(TrackDrug(c, drug_a_id), drug_b_id)
             c2 == [c1 EXCEPT !.g = drug_query(drug_query(c1.g, drug_a_id, drug_a_name),
                                               drug_b_id, drug_b_name)]
             c3 == LinkInteraction(c2, drug_a_id, drug_b_id, description)
             normalized == normalize_description(description, drug_a_name, drug_b_name)
             c4 == RegisterReaction(c3, normalized, description)
             reaction_id == c4.reaction_map[normalized]
             c5 == LinkReaction(c4, drug_a_id, reaction_id)
             c6 == LinkReaction(c5, drug_b_id, reaction_id)
         IN  [c6 EXCEPT !.stats.processed_records = @ + 1]

(***************************************************************************)
(* The checkpoint file.                                                    *)
(***************************************************************************)
\* the file does not exist
NoFile == [exists |-> FALSE]

\* mutant: reaction_map is not written
checkpoint_data_without_map(processed_count, st, rmap, counter) ==
    [exists |-> TRUE, corrupt |-> FALSE, processed_count |-> processed_count,
     stats |-> st, reaction_map |-> [x \in {} |-> <<>>], reaction_counter |-> counter]

\* save_checkpoint: the dict dumped to CHECKPOINT_FILE (the timestamp is only
\* printed on load and is left out); corrupt tells whether the text in the
\* file is cut short, so that json.load raises on it
checkpoint_data(processed_count, st, rmap, counter) ==
    [exists |-> TRUE, corrupt |-> FALSE, processed_count |-> processed_count,
     stats |-> st, reaction_map |-> rmap, reaction_counter |-> counter]

\* lines 36-37 cut short: open(CHECKPOINT_FILE, 'w') has emptied the file and
\* json.dump has written only a part of the text of snapshot
Truncated(snapshot) == [snapshot EXCEPT !.corrupt = TRUE]

IsCorrupt(file) == file.exists /\ file.corrupt

\* mutant: the text of a corrupt file is taken as it is
load_checkpoint_unchecked(file) == file

\* the value of a decimal digit
DigitValue(c) == (CHOOSE k \in 1..10 : Digits[k] = c) - 1

\* int(text) for a text of decimal digits
RECURSIVE ParseInt(_)
ParseInt(s) ==
    IF Len(s) = 0 THEN 0
    ELSE ParseInt(SubSeq(s, 1, Len(s) - 1)) * 10 + DigitValue(s[Len(s)])

\* line 37, json.dump: the ints are written as decimal digits; the keys and
\* values of reaction_map are strings and are written as they are
json_dump(snapshot) ==
    [processed_count |-> DecimalDigits(snapshot.processed_count),
     stats |-> [k \in DOMAIN snapshot.stats |-> DecimalDigits(snapshot.stats[k])],
     reaction_map |-> snapshot.reaction_map,
     reaction_counter |-> DecimalDigits(snapshot.reaction_counter)]

\* line 50, json.load: the dict parsed from the text
json_load(text) ==
    [exists |-> TRUE, corrupt |-> FALSE,
     processed_count |-> ParseInt(text.processed_count),
     stats |-> [k \in DOMAIN text.stats |-> ParseInt(text.stats[k])],
     reaction_map |-> text.reaction_map,
     reaction_counter |-> ParseInt(text.reaction_counter)]

\* load_checkpoint: the dict read back, or None (a value that is not truthy)
\* when the file is missing or json.load raises
load_checkpoint(file) ==
    IF file.exists /\ ~IsCorrupt(file) THEN json_load(json_dump(file)) ELSE NoFile

\* "if checkpoint:" at line 248
Truthy(cp) == cp.exists

\* mutant: the checkpoint file is left in place
clear_checkpoint_keeps_file(file) == file

\* clear_checkpoint: os.remove(CHECKPOINT_FILE)
clear_checkpoint(file) == NoFile

(***************************************************************************)
(* Input records: rows of ddi.tsv, five fields each (a four-field row      *)
(* stands for a record whose unpacking fails).                             *)
(***************************************************************************)
D1 == <<"D","1">>

D2 == <<"D","2">>

D3 == <<"D","3">>

Zinc == <<"Z","i","n","c">>

Iron == <<"I","r","o","n">>

Gold == <<"G","o","l","d">>

Lepirudin == <<"L","e","p","i","r","u","d","i","n">>

Apixaban == <<"A","p","i","x","a","b","a","n">>

\* "Zinc binds Iron."
RowZincIron == <<D1, Zinc, D2, Iron, <<"Z","i","n","c"," ","b","i","n","d","s"," ","I","r","o","n",".">>>>

\* the reverse ordered pair with the same surrounding text
RowIronZinc == <<D2, Iron, D1, Zinc, <<"I","r","o","n"," ","b","i","n","d","s"," ","Z","i","n","c",".">>>>

\* the ordered pair of RowZincIron again, with another description
RowZincIron2 == <<D1, Zinc, D2, Iron, <<"Z","i","n","c"," ","b","l","o","c","k","s"," ","I","r","o","n",".">>>>

\* a third drug; the fields carry surrounding blanks
RowGoldZinc == <<<<"D","3"," ">>, <<" ","G","o","l","d">>, D1, Zinc, <<" ","G","o","l","d"," ","b","l","o","c","k","s"," ","Z","i","n","c","."," ">>>>

\* a record with four fields
RowShort == <<D1, Zinc, D2, Iron>>

Records == {RowZincIron, RowIronZinc, RowZincIron2, RowGoldZinc, RowShort}

Inputs == UNION {[1..n -> Records] : n \in 1..MaxLen}

\* the two rows of the end-to-end scenario
RowLepApi ==
    <<D1, Lepirudin, D2, Apixaban,
      <<"L","e","p","i","r","u","d","i","n"," ","m","a","y"," ","i","n","c","r","e","a","s","e"," ","t","h","e"," ","a","n","t","i","c","o","a","g","u","l","a","n","t"," ","a","c","t","i","v","i","t","i","e","s"," ","o","f"," ","A","p","i","x","a","b","a","n",".">>>>

RowApiLep ==
    <<D2, Apixaban, D1, Lepirudin,
      <<"A","p","i","x","a","b","a","n"," ","m","a","y"," ","i","n","c","r","e","a","s","e"," ","t","h","e"," ","a","n","t","i","c","o","a","g","u","l","a","n","t"," ","a","c","t","i","v","i","t","i","e","s"," ","o","f"," ","L","e","p","i","r","u","d","i","n",".">>>>

\* the scenario: RowLepApi first, RowApiLep later, possibly repeated
ScenarioInputs ==
    {d \in UNION {[1..n -> {RowLepApi, RowApiLep}] : n \in 2..(MaxLen + 1)} :
        d[1] = RowLepApi /\ RowApiLep \in Range(d)}

(***************************************************************************)
(* Descriptions built from a surrounding text and two drug names.  A text  *)
(* is a sequence of characters and of the two slots SlotA and SlotB.       *)
(***************************************************************************)
SlotA == "{A}"

SlotB == "{B}"

RECURSIVE Fill(_, _, _)
Fill(text, name_a, name_b) ==
    IF text = <<>> THEN <<>>
    ELSE (IF Head(text) = SlotA THEN name_a
          ELSE IF Head(text) = SlotB THEN name_b
          ELSE <<Head(text)>>) \o Fill(Tail(text), name_a, name_b)

ZincOxide == <<"Z","i","n","c"," ","O","x","i","d","e">>

Names == {Zinc, Iron, ZincOxide}

DrugIdOf(name) ==
    IF name = Zinc THEN D1 ELSE IF name = Iron THEN D2 ELSE D3

\* "{A} binds {B}.", "Avoid {B} with {A}.", "{A} and {B}: {A} first"
Texts ==
    {<<SlotA>> \o <<" ","b","i","n","d","s"," ">> \o <<SlotB>> \o <<".">>,
     <<"A","v","o","i","d"," ">> \o <<SlotB>> \o <<" ","w","i","t","h"," ">> \o <<SlotA>> \o <<".">>,
     <<SlotA>> \o <<" ","a","n","d"," ">> \o <<SlotB>> \o <<":"," ">> \o <<SlotA>> \o <<" ","f","i","r","s","t">>}

RowFor(text, name_a, name_b) ==
    <<DrugIdOf(name_a), name_a, DrugIdOf(name_b), name_b, Fill(text, name_a, name_b)>>

\* two records with the same surrounding text and two pairs of distinct names
SameTextInputs ==
    {<<RowFor(text, p[1], p[2]), RowFor(text, q[1], q[2])>> :
        text \in Texts,
        p \in {x \in Names \X Names : x[1] # x[2]},
        q \in {x \in Names \X Names : x[1] # x[2]}}

VARIABLES
    data,              \* the list read from ddi.tsv
    BATCH_SIZE,        \* records per transaction
    graph,             \* committed content of the Neo4j database
    checkpoint,        \* content of CHECKPOINT_FILE
    pc,                \* position of the script
    start_index,       \* locals of import_to_neo4j_with_recovery
    batch_start,
    stats,
    reaction_map,
    reaction_counter,
    total_errors,
    tx,                \* the open transaction and the locals of process_batch
    retries,           \* times the current batch function has been re-run
    runs,              \* times the script has been started
    committed,         \* history: offset up to which batches are committed in graph
    vector_index,      \* points of the Qdrant collection, in scroll order
    request,           \* the call under way: its name and arguments
    response           \* what the call returned, once it has returned

vars == <<data, BATCH_SIZE, graph, checkpoint, pc, start_index, batch_start, stats,
          reaction_map, reaction_counter, total_errors, tx, retries, runs, committed,
          vector_index, request, response>>

inputVars == <<data, BATCH_SIZE>>

\* no call is under way
NoRequest == [op |-> "none"]

\* the call has not returned
NoResponse == [done |-> FALSE]

\* the call has returned value
Returned(value) == [done |-> TRUE, value |-> value]

\* state of the query side (crossdb.py, main.py) and of direct calls
lookupVars == <<vector_index, request, response>>

localVars == <<start_index, batch_start, stats, reaction_map, reaction_counter,
               total_errors>>

\* no transaction is open
NoTransaction ==
    [g |-> EmptyGraph, i |-> 0, reaction_counter |-> 0, drugs_seen |-> {},
     batch_errors |-> <<>>]

\* the script starts on an empty database with no checkpoint file
InitWith(inputs) ==
    /\ data \in inputs
    /\ BATCH_SIZE \in 1..MaxBatchSize
    /\ graph = EmptyGraph
    /\ checkpoint = NoFile
    /\ pc = "start"
    /\ start_index = 0
    /\ batch_start = 0
    /\ stats = NewStats(Len(data))
    /\ reaction_map = EmptyMap
    /\ reaction_counter = 1
    /\ total_errors = <<>>
    /\ tx = NoTransaction
    /\ retries = 0
    /\ runs = 1
    /\ committed = 0
    /\ vector_index = <<>>
    /\ request = NoRequest
    /\ response = NoResponse

Init == InitWith(Inputs)

(***************************************************************************)
(* The script, from the existing-data check to the end of the import.      *)
(***************************************************************************)
\* the memory of a process that has not started the import
ResetLocals ==
    /\ start_index' = 0
    /\ batch_start' = 0
    /\ stats' = NewStats(Len(data))
    /\ reaction_map' = EmptyMap
    /\ reaction_counter' = 1
    /\ total_errors' = <<>>
    /\ tx' = NoTransaction
    /\ retries' = 0

\* lines 441-462, database empty: "proceeding with import"
DatabaseEmpty ==
    /\ pc = "start"
    /\ ~HasExistingData(graph)
    /\ pc' = "import"
    /\ UNCHANGED <<inputVars, lookupVars, graph, checkpoint, localVars, tx, retries, runs, committed>>

\* lines 443-458, existing data and the operator answers 'n'
KeepDatabase ==
    /\ pc = "start"
    /\ HasExistingData(graph)
    /\ pc' = "import"
    /\ UNCHANGED <<inputVars, lookupVars, graph, checkpoint, localVars, tx, retries, runs, committed>>

\* lines 452-453, existing data and the operator answers 'y': clear_database
ClearDatabase ==
    /\ pc = "start"
    /\ HasExistingData(graph)
    /\ graph' = clear_database(graph)
    /\ committed' = 0
    /\ pc' = "clear_checkpoint"
    /\ UNCHANGED <<inputVars, lookupVars, checkpoint, localVars, tx, retries, runs>>

\* line 454: clear_checkpoint() after clear_database
ClearCheckpointAfterClear ==
    /\ pc = "clear_checkpoint"
    /\ checkpoint' = clear_checkpoint(checkpoint)
    /\ pc' = "import"
    /\ UNCHANGED <<inputVars, lookupVars, graph, localVars, tx, retries, runs, committed>>

\* lines 246-257: a checkpoint is found and the operator answers 'y'
ResumeFromCheckpoint ==
    /\ pc = "import"
    /\ Truthy(load_checkpoint(checkpoint))
    /\ start_index' = load_checkpoint(checkpoint).processed_count
    /\ stats' = load_checkpoint(checkpoint).stats
    /\ reaction_map' = load_checkpoint(checkpoint).reaction_map
    /\ reaction_counter' = load_checkpoint(checkpoint).reaction_counter
    /\ batch_start' = start_index'
    /\ total_errors' = <<>>
    /\ pc' = "loop"
    /\ UNCHANGED <<inputVars, lookupVars, graph, checkpoint, tx, retries, runs, committed>>

\* mutant: the operator answers 'n' and the checkpoint file stays
DiscardCheckpointKeepsFile ==
    /\ pc = "import"
    /\ Truthy(load_checkpoint(checkpoint))
    /\ start_index' = 0
    /\ stats' = NewStats(Len(data))
    /\ reaction_map' = EmptyMap
    /\ reaction_counter' = 1
    /\ batch_start' = 0
    /\ total_errors' = <<>>
    /\ pc' = "loop"
    /\ UNCHANGED <<inputVars, lookupVars, graph, checkpoint, tx, retries, runs, committed>>

\* lines 258-275: a checkpoint is found and the operator answers 'n'
DiscardCheckpoint ==
    /\ pc = "import"
    /\ Truthy(load_checkpoint(checkpoint))
    /\ start_index' = 0
    /\ stats' = NewStats(Len(data))
    /\ reaction_map' = EmptyMap
    /\ reaction_counter' = 1
    /\ checkpoint' = clear_checkpoint(checkpoint)
    /\ batch_start' = 0
    /\ total_errors' = <<>>
    /\ pc' = "loop"
    /\ UNCHANGED <<inputVars, lookupVars, graph, tx, retries, runs, committed>>

\* lines 278-292: no checkpoint
StartFresh ==
    /\ pc = "import"
    /\ ~Truthy(load_checkpoint(checkpoint))
    /\ start_index' = 0
    /\ stats' = NewStats(Len(data))
    /\ reaction_map' = EmptyMap
    /\ reaction_counter' = 1
    /\ batch_start' = 0
    /\ total_errors' = <<>>
    /\ pc' = "loop"
    /\ UNCHANGED <<inputVars, lookupVars, graph, checkpoint, tx, retries, runs, committed>>

\* line 303
batch_end == Min(batch_start + BATCH_SIZE, Len(data))

\* line 304 (0-based slice data[batch_start:batch_end])
batch_data == SubSeq(data, batch_start + 1, batch_end)

\* session.execute_write calls process_batch in a new transaction: it sees the
\* committed graph, and reaction_counter is passed by value
OpenTransaction ==
    [g |-> graph, i |-> 0, reaction_counter |-> reaction_counter,
     drugs_seen |-> {}, batch_errors |-> <<>>]

\* lines 302-313: the next batch is handed to session.execute_write
BeginBatch ==
    /\ pc = "loop"
    /\ batch_start < Len(data)
    /\ tx' = OpenTransaction
    /\ retries' = 0
    /\ pc' = "batch"
    /\ UNCHANGED <<inputVars, lookupVars, graph, checkpoint, localVars, runs, committed>>

\* the state process_record works on, assembled from tx and the shared dicts
BatchContext ==
    [g |-> tx.g, stats |-> stats, reaction_map |-> reaction_map,
     reaction_counter |-> tx.reaction_counter, drugs_seen |-> tx.drugs_seen,
     batch_errors |-> tx.batch_errors]

\* lines 160-237: one record of the batch; stats and reaction_map are the
\* caller's dicts, mutated in place
ProcessRecord ==
    /\ pc = "batch"
    /\ tx.i < Len(batch_data)
    /\ LET c == process_record(BatchContext, batch_data[tx.i + 1],
                               batch_start + tx.i)
       IN  /\ tx' = [g |-> c.g, i |-> tx.i + 1,
                     reaction_counter |-> c.reaction_counter,
                     drugs_seen |-> c.drugs_seen, batch_errors |-> c.batch_errors]
           /\ stats' = c.stats
           /\ reaction_map' = c.reaction_map
    /\ UNCHANGED <<inputVars, lookupVars, graph, checkpoint, pc, start_index, batch_start,
                   reaction_counter, total_errors, retries, runs, committed>>

\* lines 239, 310-315: process_batch returns and the transaction commits
CommitBatch ==
    /\ pc = "batch"
    /\ tx.i = Len(batch_data)
    /\ graph' = tx.g
    /\ reaction_counter' = tx.reaction_counter
    /\ total_errors' = total_errors \o tx.batch_errors
    /\ committed' = Max(committed, batch_end)
    /\ tx' = NoTransaction
    /\ retries' = 0
    /\ pc' = "save"
    /\ UNCHANGED <<inputVars, lookupVars, checkpoint, start_index, batch_start, stats,
                   reaction_map, runs>>

\* line 310: the commit fails with a transient error; execute_write rolls the
\* transaction back and calls process_batch again with the same arguments
RetryBatch ==
    /\ pc = "batch"
    /\ tx.i = Len(batch_data)
    /\ retries < MaxRetries
    /\ tx' = OpenTransaction
    /\ retries' = retries + 1
    /\ UNCHANGED <<inputVars, lookupVars, graph, checkpoint, pc, localVars, runs, committed>>

\* mutant: the writes of the failed transaction stay in the database
BatchFailsKeepsWrites ==
    /\ pc = "batch"
    /\ tx.i = Len(batch_data)
    /\ graph' = tx.g
    /\ pc' = "stopped"
    /\ ResetLocals
    /\ UNCHANGED <<inputVars, lookupVars, checkpoint, runs, committed>>

\* lines 337-351: the transaction fails for good; the exception is re-raised
\* and the script ends (lines 488-495)
BatchFails ==
    /\ pc = "batch"
    /\ tx.i = Len(batch_data)
    /\ pc' = "stopped"
    /\ ResetLocals
    /\ UNCHANGED <<inputVars, lookupVars, graph, checkpoint, runs, committed>>

\* mutant: the checkpoint records the start of the batch, not its end
SaveCheckpointOfStart ==
    /\ pc = "save"
    /\ checkpoint' = checkpoint_data(batch_start, stats, reaction_map, reaction_counter)
    /\ batch_start' = batch_end
    /\ pc' = "loop"
    /\ UNCHANGED <<inputVars, lookupVars, graph, start_index, stats, reaction_map,
                   reaction_counter, total_errors, tx, retries, runs, committed>>

\* lines 317-319: save_checkpoint after the committed batch
SaveCheckpoint ==
    /\ pc = "save"
    /\ checkpoint' = checkpoint_data(batch_end, stats, reaction_map, reaction_counter)
    /\ batch_start' = batch_end
    /\ pc' = "loop"
    /\ UNCHANGED <<inputVars, lookupVars, graph, start_index, stats, reaction_map,
                   reaction_counter, total_errors, tx, retries, runs, committed>>

\* lines 353-375: the loop is over; clear_checkpoint and return
Finish ==
    /\ pc = "loop"
    /\ batch_start >= Len(data)
    /\ checkpoint' = clear_checkpoint(checkpoint)
    /\ pc' = "done"
    /\ UNCHANGED <<inputVars, lookupVars, graph, localVars, tx, retries, runs, committed>>

\* the process is killed; an open transaction is rolled back, memory is lost
Crash ==
    /\ pc \in {"start", "clear_checkpoint", "import", "loop", "batch", "save"}
    /\ pc' = "stopped"
    /\ ResetLocals
    /\ UNCHANGED <<inputVars, lookupVars, graph, checkpoint, runs, committed>>

\* killed at a point where every committed batch is also checkpointed
CrashBeforeCommit == pc # "save" /\ Crash

\* killed between a batch's commit and its save_checkpoint
CrashAfterCommit == pc = "save" /\ Crash

\* the operator starts the script again on the same ddi.tsv
Rerun ==
    /\ pc \in {"stopped", "done"}
    /\ runs < MaxRuns
    /\ runs' = runs + 1
    /\ pc' = "start"
    /\ ResetLocals
    /\ UNCHANGED <<inputVars, lookupVars, graph, checkpoint, committed>>

RerunAfterStop == pc = "stopped" /\ Rerun

RerunAfterDone == pc = "done" /\ Rerun

\* an import on an empty database that nothing interrupts
IngestOnce ==
    \/ DatabaseEmpty
    \/ StartFresh
    \/ BeginBatch
    \/ ProcessRecord
    \/ CommitBatch
    \/ SaveCheckpoint
    \/ Finish

\* the same, also on a database that holds data and is kept
Ingest ==
    \/ IngestOnce
    \/ KeepDatabase

\* every step of the script and of its environment
Next ==
    \/ Ingest
    \/ ClearDatabase
    \/ ClearCheckpointAfterClear
    \/ ResumeFromCheckpoint
    \/ DiscardCheckpoint
    \/ RetryBatch
    \/ BatchFails
    \/ Crash
    \/ Rerun

Spec == Init /\ [][Next]_vars

\* crashes, failed batches, reruns and every answer of the operator, but no
\* transaction that the driver re-runs
NextCrash ==
    \/ Ingest
    \/ ClearDatabase
    \/ ClearCheckpointAfterClear
    \/ ResumeFromCheckpoint
    \/ DiscardCheckpoint
    \/ BatchFails
    \/ Crash
    \/ Rerun

SpecCrash == Init /\ [][NextCrash]_vars

\* runs killed while every committed batch is checkpointed, then resumed
NextResume ==
    \/ Ingest
    \/ ResumeFromCheckpoint
    \/ CrashBeforeCommit
    \/ RerunAfterStop

SpecResume == Init /\ [][NextResume]_vars

\* runs killed anywhere, also between a commit and its checkpoint, then resumed
NextWindow ==
    \/ Ingest
    \/ ResumeFromCheckpoint
    \/ CrashBeforeCommit
    \/ CrashAfterCommit
    \/ RerunAfterStop

SpecWindow == Init /\ [][NextWindow]_vars

\* a completed import, run again on the same input without clearing the graph
NextReplay ==
    \/ Ingest
    \/ RerunAfterDone

SpecReplay == Init /\ [][NextReplay]_vars

\* the end-to-end scenario, killed anywhere and resumed
SpecScenario == InitWith(ScenarioInputs) /\ [][NextWindow]_vars

\* two records that differ only in the drug names, ingested from empty
SpecCanon == InitWith(SameTextInputs) /\ [][IngestOnce]_vars

(***************************************************************************)
(* The uninterrupted run: import_to_neo4j_with_recovery from an empty      *)
(* database with no checkpoint, every batch committing at the first try.   *)
(***************************************************************************)
\* the contexts process_batch goes through on d[from+1..to]: the one it
\* starts from, then the one after each record
RECURSIVE ApplyRecords(_, _, _, _)
ApplyRecords(c, d, from, to) ==
    IF from >= to THEN <<c>>
    ELSE LET before == ApplyRecords(c, d, from, to - 1)
         IN  Append(before, process_record(before[Len(before)], d[to], to - 1))

RECURSIVE RunBatches(_, _, _, _)
RunBatches(c, d, size, from) ==
    IF from >= Len(d) THEN c
    ELSE LET to == Min(from + size, Len(d))
             c0 == [c EXCEPT !.drugs_seen = {}, !.batch_errors = <<>>]
             contexts == ApplyRecords(c0, d, from, to)
         IN  RunBatches(contexts[Len(contexts)], d, size, to)

UninterruptedRun(d, size) ==
    RunBatches([g |-> EmptyGraph, stats |-> NewStats(Len(d)),
                reaction_map |-> EmptyMap, reaction_counter |-> 1,
                drugs_seen |-> {}, batch_errors |-> <<>>], d, size, 0)

\* two graphs hold the same nodes and edges, whatever the creation order
Bag(s) == [x \in Range(s) |-> Cardinality({k \in DOMAIN s : s[k] = x})]

SameGraph(g, h) ==
    /\ Bag(g.drugs) = Bag(h.drugs)
    /\ Bag(g.reactions) = Bag(h.reactions)
    /\ Bag(g.interacts) = Bag(h.interacts)
    /\ Bag(g.has_reaction) = Bag(h.has_reaction)

Counts(g) ==
    <<Len(g.drugs), Len(g.interacts), Len(g.reactions), Len(g.has_reaction)>>

(***************************************************************************)
(* C1: a run killed while every committed batch is checkpointed, and then  *)
(* resumed from the checkpoint, ends with the graph of the uninterrupted   *)
(* run over the same input: the same Drug nodes with their names, Reaction *)
(* nodes with ids and descriptions, INTERACTS_WITH edges with their        *)
(* descriptions and HAS_REACTION edges.                                    *)
(***************************************************************************)
C1_ResumeEqualsUninterrupted ==
    pc = "done" => SameGraph(graph, UninterruptedRun(data, BATCH_SIZE).g)

\* a finished run that was resumed at an offset inside the input
C1_Witness ==
    /\ pc = "done"
    /\ runs >= 2
    /\ start_index >= 1
    /\ start_index < Len(data)

(***************************************************************************)
(* C2: a run killed between a batch's commit and its save_checkpoint       *)
(* resumes from the older checkpoint and applies that batch again.  The    *)
(* commit of a batch that is already in the graph leaves the graph as it   *)
(* is (no node or edge added, none changed), and the finished run has the  *)
(* graph and the reaction ids of the uninterrupted run.                    *)
(***************************************************************************)
C2_ReapplyLeavesGraph ==
    /\ [](pc = "done" =>
            /\ SameGraph(UninterruptedRun(data, BATCH_SIZE).g, graph)
            /\ reaction_map = UninterruptedRun(data, BATCH_SIZE).reaction_map)
    /\ [][(pc = "batch" /\ pc' = "save" /\ batch_end <= committed)
            => graph' = graph]_vars

\* a finished run in which a batch was applied twice: its edges are in the
\* graph but the restored stats never counted them as created
C2_Witness ==
    /\ pc = "done"
    /\ runs >= 2
    /\ stats.interactions_created < Len(graph.interacts)

(***************************************************************************)
(* C3: the same input imported again from offset 0, with an empty          *)
(* reaction_map and reaction_counter = 1, into the graph a completed       *)
(* import left, changes none of the four counts (Drug nodes,               *)
(* INTERACTS_WITH edges, Reaction nodes, HAS_REACTION edges).              *)
(***************************************************************************)
C3_ReplayKeepsCounts ==
    [][runs >= 2 => Counts(graph') = Counts(graph)]_vars

\* the replay has finished on a graph that holds nodes and edges
C3_Witness ==
    /\ pc = "done"
    /\ runs = 2
    /\ start_index = 0
    /\ Len(graph.has_reaction) >= 2

(***************************************************************************)
(* C4: inside import_to_neo4j_with_recovery the checkpoint file never      *)
(* records more than the graph holds: its processed_count is at most the   *)
(* offset up to which batches are committed.                               *)
(***************************************************************************)
C4_CheckpointNeverAhead ==
    (pc \in {"import", "loop", "batch", "save"} /\ checkpoint.exists)
        => checkpoint.processed_count <= committed

(***************************************************************************)
(* The record a step of process_batch has just worked on, and what the     *)
(* step found in the transaction's graph.                                  *)
(***************************************************************************)
RecordStep == pc = "batch" /\ pc' = "batch" /\ tx'.i = tx.i + 1

CurrentRecord == batch_data[tx.i + 1]

OneEdgePerPair(g) ==
    \A j, k \in DOMAIN g.interacts :
        (g.interacts[j].a = g.interacts[k].a /\ g.interacts[j].b = g.interacts[k].b)
            => j = k

OneLinkPerPair(g) ==
    \A j, k \in DOMAIN g.has_reaction :
        (/\ g.has_reaction[j].drug = g.has_reaction[k].drug
         /\ g.has_reaction[j].reaction = g.has_reaction[k].reaction)
            => j = k

HasEdge(g, a, b) ==
    \E k \in DOMAIN g.interacts : g.interacts[k].a = a /\ g.interacts[k].b = b

HasLink(g, d, r) ==
    \E k \in DOMAIN g.has_reaction :
        g.has_reaction[k].drug = d /\ g.has_reaction[k].reaction = r

(***************************************************************************)
(* C5: the graph holds at most one INTERACTS_WITH edge per ordered pair of *)
(* drug ids.  A record whose ordered pair has no edge yet creates the edge *)
(* with its own description, verbatim, and counts interactions_created; a  *)
(* record whose pair already has an edge leaves every edge as it is and    *)
(* counts interactions_skipped.  The committed edges change only when a    *)
(* batch commits or the database is cleared.                               *)
(***************************************************************************)
C5_FirstInteractionWins ==
    /\ [](OneEdgePerPair(graph) /\ (pc = "batch" => OneEdgePerPair(tx.g)))
    /\ [][(RecordStep /\ Len(CurrentRecord) = 5) =>
            LET a == Strip(CurrentRecord[1])
                b == Strip(CurrentRecord[3])
                description == Strip(CurrentRecord[5])
            IN  IF HasEdge(tx.g, a, b)
                THEN /\ tx'.g.interacts = tx.g.interacts
                     /\ stats'.interactions_skipped = stats.interactions_skipped + 1
                     /\ stats'.interactions_created = stats.interactions_created
                ELSE /\ tx'.g.interacts =
                            Append(tx.g.interacts,
                                   [a |-> a, b |-> b, description |-> description])
                     /\ stats'.interactions_created = stats.interactions_created + 1
                     /\ stats'.interactions_skipped = stats.interactions_skipped]_vars
    /\ [][graph'.interacts # graph.interacts =>
            \/ pc = "batch" /\ graph' = tx.g
            \/ pc = "start" /\ graph' = EmptyGraph]_vars

\* a record has just been skipped whose description differs from the one
\* its ordered pair already carries
C5_Witness ==
    /\ pc = "batch"
    /\ tx.i >= 1
    /\ Len(batch_data[tx.i]) = 5
    /\ stats.interactions_skipped >= 1
    /\ \E k \in DOMAIN tx.g.interacts :
            /\ tx.g.interacts[k].a = Strip(batch_data[tx.i][1])
            /\ tx.g.interacts[k].b = Strip(batch_data[tx.i][3])
            /\ tx.g.interacts[k].description # Strip(batch_data[tx.i][5])

(***************************************************************************)
(* C6: reaction_map gives distinct canonical descriptions distinct ids,    *)
(* the ids are R0001, R0002, ... without a gap, and after a batch has      *)
(* committed every id of reaction_map has exactly one Reaction node.       *)
(***************************************************************************)
C6_ReactionIdsUnique ==
    /\ \A x, y \in DOMAIN reaction_map :
            x # y => reaction_map[x] # reaction_map[y]
    /\ {reaction_map[x] : x \in DOMAIN reaction_map} =
            {FormatReactionId(n) : n \in 1..Cardinality(DOMAIN reaction_map)}
    /\ pc = "save" =>
            \A x \in DOMAIN reaction_map :
                Cardinality({k \in DOMAIN graph.reactions :
                                graph.reactions[k].id = reaction_map[x]}) = 1

(***************************************************************************)
(* C7: the graph holds at most one HAS_REACTION edge per (drug, reaction)  *)
(* pair.  A record whose drug is already linked to the record's reaction   *)
(* counts drug_reaction_links_skipped for that drug and adds no edge for   *)
(* it; the edges a record adds join its other drugs to its reaction.       *)
(***************************************************************************)
C7_OneLinkPerDrugReaction ==
    /\ [](OneLinkPerPair(graph) /\ (pc = "batch" => OneLinkPerPair(tx.g)))
    /\ [][(RecordStep /\ Len(CurrentRecord) = 5) =>
            LET a == Strip(CurrentRecord[1])
                b == Strip(CurrentRecord[3])
                r == reaction_map'[normalize_description(Strip(CurrentRecord[5]),
                                                         Strip(CurrentRecord[2]),
                                                         Strip(CurrentRecord[4]))]
                linked == {d \in {a, b} : HasLink(tx.g, d, r)}
            IN  /\ SubSeq(tx'.g.has_reaction, 1, Len(tx.g.has_reaction))
                        = tx.g.has_reaction
                /\ \A k \in (Len(tx.g.has_reaction) + 1)..Len(tx'.g.has_reaction) :
                        /\ tx'.g.has_reaction[k].drug \in {a, b} \ linked
                        /\ tx'.g.has_reaction[k].reaction = r
                /\ stats'.drug_reaction_links_skipped
                        >= stats.drug_reaction_links_skipped + Cardinality(linked)
                /\ stats'.drug_reaction_links + stats'.drug_reaction_links_skipped
                        = stats.drug_reaction_links + stats.drug_reaction_links_skipped + 2]_vars

\* a record has just been processed with one drug already linked to its
\* reaction and the other not: one link skipped, one created
C7_Witness ==
    /\ pc = "batch"
    /\ tx.i >= 1
    /\ Len(batch_data[tx.i]) = 5
    /\ stats.drug_reaction_links_skipped = 1
    /\ stats.drug_reaction_links = 3
    /\ Len(tx.g.has_reaction) = 3

R0001 == <<"R","0","0","0","1">>

\* "<drugA> may increase the anticoagulant activities of <drugB>."
ScenarioCanonical ==
    PlaceholderA
        \o <<" ","m","a","y"," ","i","n","c","r","e","a","s","e"," ","t","h","e"," ","a","n","t","i","c","o","a","g","u","l","a","n","t"," ","a","c","t","i","v","i","t","i","e","s"," ","o","f"," ">>
        \o PlaceholderB \o <<".">>

(***************************************************************************)
(* C8: the scenario rows (D1 Lepirudin, D2 Apixaban) and, later, (D2       *)
(* Apixaban, D1 Lepirudin), ingested from an empty graph, leave exactly 2  *)
(* Drug nodes, exactly 1 Reaction node, whose canonical description is     *)
(* ScenarioCanonical, and 2 INTERACTS_WITH edges, one per ordered pair.    *)
(***************************************************************************)
C8_ScenarioNodesAndEdges ==
    pc = "done" =>
        /\ Len(graph.drugs) = 2
        /\ {graph.drugs[k].id : k \in DOMAIN graph.drugs} = {D1, D2}
        /\ Len(graph.reactions) = 1
        /\ graph.reactions[1].normalized_desc = ScenarioCanonical
        /\ Len(graph.interacts) = 2
        /\ {<<graph.interacts[k].a, graph.interacts[k].b>> :
                k \in DOMAIN graph.interacts} = {<<D1, D2>>, <<D2, D1>>}

\* both rows are ingested and the import is over
C8_Witness ==
    /\ pc = "done"
    /\ Len(graph.interacts) = 2
    /\ Len(graph.reactions) = 1

(***************************************************************************)
(* C9 as claimed: after the two scenario rows the graph holds 4            *)
(* HAS_REACTION links.                                                     *)
(***************************************************************************)
C9_FourReactionLinks ==
    pc = "done" => Len(graph.has_reaction) = 4

(***************************************************************************)
(* C9 as amended: after the two scenario rows the graph holds 2            *)
(* HAS_REACTION links, one from each of the two drugs to the single        *)
(* Reaction node R0001.                                                    *)
(***************************************************************************)
C9_TwoReactionLinks ==
    pc = "done" =>
        /\ Len(graph.has_reaction) = 2
        /\ Range(graph.has_reaction) =
                {[drug |-> D1, reaction |-> R0001], [drug |-> D2, reaction |-> R0001]}

\* the import is over and the second row's two links were skipped
C9_Witness ==
    /\ pc = "done"
    /\ stats.drug_reaction_links_skipped >= 2
    /\ Len(graph.has_reaction) = 2

(***************************************************************************)
(* C10: two descriptions built from the same surrounding text with two     *)
(* pairs of drug names have the same canonical form, also when one name of *)
(* a pair contains the other as a whole word, and ingesting both records   *)
(* creates a single Reaction node.                                         *)
(***************************************************************************)
C10_SameTextOneReaction ==
    pc = "done" =>
        /\ normalize_description(Strip(data[1][5]), Strip(data[1][2]), Strip(data[1][4]))
            = normalize_description(Strip(data[2][5]), Strip(data[2][2]), Strip(data[2][4]))
        /\ Cardinality(DOMAIN reaction_map) = 1
        /\ Len(graph.reactions) = 1

(***************************************************************************)
(* Direct calls of normalize_description.                                  *)
(***************************************************************************)
\* the ingestion side at rest while a function or a query is called
LookupInit(graphs, indexes, requests) ==
    /\ data = <<>>
    /\ BATCH_SIZE = 1
    /\ graph \in graphs
    /\ checkpoint = NoFile
    /\ pc = "lookup"
    /\ start_index = 0
    /\ batch_start = 0
    /\ stats = NewStats(0)
    /\ reaction_map = EmptyMap
    /\ reaction_counter = 1
    /\ total_errors = <<>>
    /\ tx = NoTransaction
    /\ retries = 0
    /\ runs = 1
    /\ committed = 0
    /\ vector_index \in indexes
    /\ request \in requests
    /\ response = NoResponse

ingestVars == <<data, BATCH_SIZE, graph, checkpoint, pc, start_index, batch_start,
                stats, reaction_map, reaction_counter, total_errors, tx, retries,
                runs, committed>>

Pirin == <<"p","i","r","i","n">>

DrugA == <<"d","r","u","g","A">>

Empty == <<>>

NormalizeNames == {Pirin, Zinc, Iron, DrugA, Empty}

NormalizeDescriptions ==
    { <<"A","s","p","i","r","i","n"," ","o","r"," ","p","i","r","i","n">>,
      <<"Z","i","n","c"," ","b","i","n","d","s"," ","I","r","o","n",".">>,
      <<"z","i","n","c",","," ","n","o","t"," ","Z","i","n","c","a","t","e">>,
      <<" ","I","r","o","n"," ","a","n","d"," ","p","i","r","i","n"," ">>,
      <<"U","s","e"," ","Z","i","n","c","."," ","A","v","o","i","d"," ","i","r","o","n">>,
      <<"N","o"," ","d","r","u","g"," ","h","e","r","e">> }

NormalizeRequests ==
    { [op |-> "normalize_description", desc |-> d, drug_a |-> q[1], drug_b |-> q[2]] :
        d \in NormalizeDescriptions,
        q \in {x \in NormalizeNames \X NormalizeNames : x[1] # x[2]} }

CallNormalize ==
    /\ request.op = "normalize_description"
    /\ ~response.done
    /\ response' =
            Returned(normalize_description(request.desc, request.drug_a, request.drug_b))
    /\ UNCHANGED <<ingestVars, vector_index, request>>

SpecNormalize ==
    LookupInit({EmptyGraph}, {<<>>}, NormalizeRequests) /\ [][CallNormalize]_vars

\* offsets of s at which name stands as a whole word: it matches ignoring
\* case and neither neighbouring character is a word character
WholeWordAt(name, s) ==
    { i \in 0..(Len(s) - Len(name)) :
        /\ \A k \in 1..Len(name) : Lower(s[i + k]) = Lower(name[k])
        /\ ~IsWordAt(s, i)
        /\ ~IsWordAt(s, i + Len(name) + 1) }

\* a placeholder kept as one indivisible item of the sequence
MarkA == <<"<drugA>">>

MarkB == <<"<drugB>">>

RECURSIVE Expand(_)
Expand(s) ==
    LET marks == {j \in 1..Len(s) : <<s[j]>> \in {MarkA, MarkB}}
    IN  IF marks = {} THEN s
        ELSE LET j == CHOOSE m \in marks : \A k \in marks : m <= k
             IN  SubSeq(s, 1, j - 1) \o
                 (IF <<s[j]>> = MarkA THEN PlaceholderA ELSE PlaceholderB) \o
                 Expand(SubSeq(s, j + 1, Len(s)))

\* the two replacements with the inserted placeholders out of reach of the
\* second one
ReplaceBoth(desc, drug_a, drug_b) ==
    Strip(Expand(ReSub(drug_b, MarkB, ReSub(drug_a, MarkA, desc, 0), 0)))

(***************************************************************************)
(* C11: normalize_description replaces only whole-word, case-insensitive   *)
(* occurrences of drug_a by <drugA> and then of drug_b by <drugB>: a       *)
(* description in which neither name stands as a whole word comes back     *)
(* unchanged (trimmed), and everything that is not such an occurrence, the *)
(* <drugA> already inserted included, is left untouched.                   *)
(***************************************************************************)
C11_OnlyWholeWordsReplaced ==
    (/\ request.op = "normalize_description"
     /\ request.drug_a # Empty
     /\ request.drug_b # Empty
     /\ response.done) =>
        /\ response.value = ReplaceBoth(request.desc, request.drug_a, request.drug_b)
        /\ (/\ WholeWordAt(request.drug_a, request.desc) = {}
            /\ WholeWordAt(request.drug_b, request.desc) = {})
                => response.value = Strip(request.desc)

(***************************************************************************)
(* C12: normalize_description with an empty drug_a or an empty drug_b      *)
(* replaces nothing for that name: the result is the trimmed description   *)
(* with only the other name replaced.                                      *)
(***************************************************************************)
C12_EmptyNameIsNoOp ==
    (/\ request.op = "normalize_description"
     /\ response.done) =>
        /\ request.drug_a = Empty =>
                response.value =
                    Strip(ReSub(request.drug_b, PlaceholderB, request.desc, 0))
        /\ request.drug_b = Empty =>
                response.value =
                    Strip(ReSub(request.drug_a, PlaceholderA, request.desc, 0))

(***************************************************************************)
(* crossdb.py: the queries of SimpleDatabaseInterface.                     *)
(***************************************************************************)
\* str.lower() / Cypher toLower()
LowerStr(s) == [k \in DOMAIN s |-> Lower(s[k])]

\* the characters of the model in code point order
CodeOrder ==
    <<" ", "(", ")", ",", "-", ".">> \o Digits \o <<":", "<", ">">> \o UpperCase
        \o <<"_">> \o LowerCase \o <<"{", "}">>

CodePoint(c) == CHOOSE k \in DOMAIN CodeOrder : CodeOrder[k] = c

\* a < b on strings (Cypher and Python compare code point by code point)
RECURSIVE StrLess(_, _)
StrLess(a, b) ==
    IF b = <<>> THEN FALSE
    ELSE IF a = <<>> THEN TRUE
    ELSE IF Head(a) = Head(b) THEN StrLess(Tail(a), Tail(b))
    ELSE CodePoint(Head(a)) < CodePoint(Head(b))

\* a null column of a result row, a None value
NullText == <<"null">>

INTERACTS_WITH == "INTERACTS_WITH"

\* MATCH (e1)-[r:INTERACTS_WITH]-(e2): every edge in both orientations; only
\* Drug nodes have a name, so the untyped pattern finds the same matches
EdgeMatches(g) ==
    { m \in Range(g.drugs) \X Range(g.drugs) \X Range(g.interacts) :
        \/ m[3].a = m[1].id /\ m[3].b = m[2].id
        \/ m[3].a = m[2].id /\ m[3].b = m[1].id }

\* OPTIONAL MATCH (e1)-[:HAS_REACTION]->(reaction)<-[:HAS_REACTION]-(e2)
SharedReactions(g, id1, id2) ==
    { rx \in Range(g.reactions) : HasLink(g, id1, rx.id) /\ HasLink(g, id2, rx.id) }

MultiRow(m, reaction_description) ==
    [entity1_name |-> m[1].name, entity1_id |-> m[1].id,
     relationship_type |-> INTERACTS_WITH,
     interaction_description |-> m[3].description,
     entity2_name |-> m[2].name, entity2_id |-> m[2].id,
     reaction_description |-> reaction_description]

\* lines 368-393: the DISTINCT rows of the Cypher query, before LIMIT
multi_entity_query(g, entity_names, relationship_type) ==
    LET lowered == {LowerStr(entity_names[k]) : k \in DOMAIN entity_names}
        matches == { m \in EdgeMatches(g) :
                        /\ LowerStr(m[1].name) \in lowered
                        /\ LowerStr(m[2].name) \in lowered
                        /\ StrLess(m[1].name, m[2].name) }
        withReaction(m) ==
            IF SharedReactions(g, m[1].id, m[2].id) = {}
            THEN {MultiRow(m, NullText)}
            ELSE {MultiRow(m, rx.normalized_desc) :
                    rx \in SharedReactions(g, m[1].id, m[2].id)}
    IN  IF relationship_type = INTERACTS_WITH
        THEN UNION {withReaction(m) : m \in matches}
        ELSE {MultiRow(m, NullText) : m \in matches}

\* LIMIT $limit: the store hands over at most limit rows, in an order of its own
QueryResults(rows, limit) ==
    LET n == Min(limit, Cardinality(rows))
    IN  { s \in [1..n -> rows] : \A i, j \in 1..n : s[i] = s[j] => i = j }

\* lines 403-404: tuple(sorted([entity1_name, entity2_name]))
pair_key(record) ==
    IF StrLess(record.entity2_name, record.entity1_name)
    THEN <<record.entity2_name, record.entity1_name>>
    ELSE <<record.entity1_name, record.entity2_name>>

\* mutant: every pair counts as not seen
pair_unseen_always(seen_pairs, key) == TRUE

\* line 406: pair_key not in seen_pairs
pair_unseen(seen_pairs, key) == key \notin seen_pairs

relationship_info(record) ==
    [entity1 |-> [name |-> record.entity1_name, id |-> record.entity1_id],
     entity2 |-> [name |-> record.entity2_name, id |-> record.entity2_id],
     relationship_type |-> record.relationship_type,
     interaction_description |-> record.interaction_description,
     reaction_description |-> record.reaction_description]

\* lines 398-416: the loop over the result, from row k on
RECURSIVE CollectPairs(_, _, _, _)
CollectPairs(result, k, relationships, seen_pairs) ==
    IF k > Len(result) THEN relationships
    ELSE IF pair_unseen(seen_pairs, pair_key(result[k]))
         THEN CollectPairs(result, k + 1,
                           Append(relationships, relationship_info(result[k])),
                           seen_pairs \cup {pair_key(result[k])})
         ELSE CollectPairs(result, k + 1, relationships, seen_pairs)

\* lines 366-423, for the rows the store returned
get_multi_entity_relationships(result, entity_names) ==
    LET relationships == CollectPairs(result, 1, <<>>, {})
    IN  [success |-> TRUE, query_entities |-> entity_names,
         relationships_count |-> Len(relationships),
         relationships |-> relationships]

\* lines 231-236
MustProvideEntities ==
    [success |-> FALSE,
     error |-> "Must provide either entity_name or entity_names (min 2)",
     relationships |-> <<>>]

\* graphs that ingestion builds, for the queries to read
QueryInputs ==
    { <<RowZincIron>>,
      <<RowIronZinc, RowGoldZinc>>,
      <<RowZincIron, RowIronZinc, RowZincIron2>>,
      <<RowZincIron, RowIronZinc, RowZincIron2, RowGoldZinc>> }

QueryGraphs == { UninterruptedRun(d, 1).g : d \in QueryInputs }

EntityNameLists ==
    { <<Zinc, Iron>>, <<<<"i","r","o","n">>, <<"Z","I","N","C">>>>, <<Zinc, Iron, Gold>>,
      <<Gold, Zinc>>, <<Zinc>> }

QueryLimits == {1, 2, 1000}

MultiRequests ==
    { [op |-> "extract_relationships", entity_names |-> n,
       relationship_type |-> t, limit |-> l] :
        n \in EntityNameLists, t \in {INTERACTS_WITH, ""}, l \in QueryLimits }

\* lines 224-236 with entity_names given: extract_relationships
ExtractRelationshipsAmong ==
    /\ request.op = "extract_relationships"
    /\ ~response.done
    /\ IF Len(request.entity_names) >= 2
       THEN \E result \in QueryResults(
                    multi_entity_query(graph, request.entity_names,
                                       request.relationship_type),
                    request.limit) :
                response' = Returned(get_multi_entity_relationships(
                                        result, request.entity_names))
       ELSE response' = Returned(MustProvideEntities)
    /\ UNCHANGED <<ingestVars, vector_index, request>>

SpecAmong ==
    LookupInit(QueryGraphs, {<<>>}, MultiRequests) /\ [][ExtractRelationshipsAmong]_vars

\* the names of a relationship record, as an unordered pair
NamePair(rel) == {rel.entity1.name, rel.entity2.name}

(***************************************************************************)
(* C13: the relationships returned for a list of names hold at most one    *)
(* record per unordered pair of names, also when the graph holds both the  *)
(* A->B and the B->A edge and the two drugs share several Reaction nodes.  *)
(***************************************************************************)
C13_OneRecordPerPair ==
    (request.op = "extract_relationships" /\ response.done) =>
        \A i, j \in DOMAIN response.value.relationships :
            NamePair(response.value.relationships[i])
                = NamePair(response.value.relationships[j]) => i = j

\* the graph holds both edges of a pair that shares two Reaction nodes, the
\* store returned several rows for the pair, and one record came back
C13_Witness ==
    /\ request.op = "extract_relationships"
    /\ response.done
    /\ request.limit >= 2
    /\ HasEdge(graph, D1, D2) /\ HasEdge(graph, D2, D1)
    /\ Cardinality(SharedReactions(graph, D1, D2)) >= 2
    /\ Cardinality(multi_entity_query(graph, request.entity_names,
                                      request.relationship_type)) >= 2
    /\ \E k \in DOMAIN response.value.relationships :
            NamePair(response.value.relationships[k]) = {Zinc, Iron}

(***************************************************************************)
(* The vector index: Qdrant points in scroll order, each with the          *)
(* drug_name payload and the flat vector that vectordb.py stores.  A       *)
(* vector is a position on a line and a similarity score is an integer     *)
(* number of hundredths (0.98 is 98).                                      *)
(***************************************************************************)
Point(drug_name, vector) == [drug_name |-> drug_name, vector |-> vector]

\* cosine similarity of two stored vectors, in hundredths
Score(v, w) ==
    LET d == IF v >= w THEN v - w ELSE w - v
    IN  IF 2 * d >= 100 THEN 0 ELSE 100 - 2 * d

\* .lower().strip()
LowerStrip(s) == Strip(LowerStr(s))

\* sub in s
Contains(s, sub) ==
    \E i \in 0..(Len(s) - Len(sub)) : SubSeq(s, i + 1, i + Len(sub)) = sub

\* line 179: scroll(limit=1000)
ScrollLimit == 1000

\* lines 177-182: the first page of the collection
Scroll(index) == SubSeq(index, 1, Min(Len(index), ScrollLimit))

NoVector == [found |-> FALSE]

FoundVector(v) == [found |-> TRUE, vector |-> v]

\* lines 172-201: _get_entity_vector
get_entity_vector(index, entity_name) ==
    LET points == Scroll(index)
        entity_name_lower == LowerStrip(entity_name)
        stored_name(k) == LowerStrip(points[k].drug_name)
        exact == {k \in DOMAIN points : stored_name(k) = entity_name_lower}
        partial == {k \in DOMAIN points :
                        \/ Contains(stored_name(k), entity_name_lower)
                        \/ Contains(entity_name_lower, stored_name(k))}
        first(ks) == CHOOSE k \in ks : \A j \in ks : k <= j
    IN  IF exact # {} THEN FoundVector(points[first(exact)].vector)
        ELSE IF partial # {} THEN FoundVector(points[first(partial)].vector)
        ELSE NoVector

\* the best of the points ks: highest score, equal scores in scroll order or
\* in the reverse order (the store decides)
BestHit(index, ks, query_vector, tie) ==
    CHOOSE k \in ks : \A j \in ks \ {k} :
        \/ Score(index[k].vector, query_vector) > Score(index[j].vector, query_vector)
        \/ /\ Score(index[k].vector, query_vector) = Score(index[j].vector, query_vector)
           /\ IF tie = "scroll" THEN k < j ELSE k > j

RECURSIVE TopHits(_, _, _, _, _)
TopHits(index, ks, query_vector, limit, tie) ==
    IF ks = {} \/ limit = 0 THEN <<>>
    ELSE LET k == BestHit(index, ks, query_vector, tie)
         IN  <<[payload |-> [drug_name |-> index[k].drug_name],
                score |-> Score(index[k].vector, query_vector)]>>
             \o TopHits(index, ks \ {k}, query_vector, limit - 1, tie)

\* lines 135-140: qdrant_client.search(query_vector, limit, score_threshold)
qdrant_search(index, query_vector, limit, score_threshold, tie) ==
    TopHits(index,
            {k \in DOMAIN index : Score(index[k].vector, query_vector) >= score_threshold},
            query_vector, limit, tie)

\* lines 143-152
entity_info(result) ==
    [entity_name |-> result.payload.drug_name, similarity_score |-> result.score]

\* lines 114-118
EntityVectorNotFound ==
    [success |-> FALSE, error |-> "Entity not found in vector database",
     results |-> <<>>]

\* lines 107-162: find_similar_entities(entity_name=..., limit, score_threshold)
find_similar_entities(index, entity_name, limit, score_threshold, tie) ==
    LET entity_vector == get_entity_vector(index, entity_name)
        search_results == qdrant_search(index, entity_vector.vector, limit,
                                        score_threshold, tie)
    IN  IF ~entity_vector.found
        THEN EntityVectorNotFound
        ELSE [success |-> TRUE,
              results |-> [k \in DOMAIN search_results |->
                              entity_info(search_results[k])]]

\* main.py line 73: limit=15
SearchLimit == 15

\* main.py line 74: score_threshold=0.3
SearchThreshold == 30

\* main.py line 90: similarity < 0.98
SameDrugScore == 98

\* main.py line 91: len(filtered_alternatives) < 5
TopAlternatives == 5

\* mutant: the near-duplicate test is left out
keep_alternative_any_score(drug_name_db, input_drug_lower, similarity, kept) ==
    /\ drug_name_db # input_drug_lower
    /\ kept < TopAlternatives

\* main.py lines 89-91
keep_alternative(drug_name_db, input_drug_lower, similarity, kept) ==
    /\ drug_name_db # input_drug_lower
    /\ similarity < SameDrugScore
    /\ kept < TopAlternatives

\* main.py lines 84-92: the loop over alternatives, from item k on
RECURSIVE FilterAlternatives(_, _, _, _)
FilterAlternatives(alternatives, k, input_drug_lower, filtered_alternatives) ==
    IF k > Len(alternatives) THEN filtered_alternatives
    ELSE FilterAlternatives(alternatives, k + 1, input_drug_lower,
            IF keep_alternative(LowerStrip(alternatives[k].entity_name),
                                input_drug_lower,
                                alternatives[k].similarity_score,
                                Len(filtered_alternatives))
            THEN Append(filtered_alternatives, alternatives[k])
            ELSE filtered_alternatives)

\* main.py lines 68-99: find_drug_alternatives
find_drug_alternatives(index, drug_name, tie) ==
    LET result == find_similar_entities(index, drug_name, SearchLimit,
                                        SearchThreshold, tie)
        filtered == FilterAlternatives(result.results, 1, LowerStrip(drug_name), <<>>)
    IN  IF result.success
        THEN SubSeq(filtered, 1, Min(Len(filtered), TopAlternatives))
        ELSE <<>>

Lead == <<"L","e","a","d">>

Tin == <<"T","i","n">>

Neon == <<"N","e","o","n">>

Argon == <<"A","r","g","o","n">>

Xenon == <<"X","e","n","o","n">>

PointPool ==
    << Point(Zinc, 10), Point(Iron, 11), Point(Gold, 12), Point(ZincOxide, 13),
       Point(<<" ","Z","I","N","C">>, 14), Point(Lead, 15), Point(Tin, 7), Point(Neon, 5),
       Point(Argon, 6), Point(Xenon, 60) >>

Reverse(s) == [k \in DOMAIN s |-> s[Len(s) + 1 - k]]

\* the collection after the first n points of the pool were upserted
SmallIndexes ==
    {SubSeq(PointPool, 1, n) : n \in 0..Len(PointPool)}
        \cup {SubSeq(Reverse(PointPool), 1, n) : n \in 0..Len(PointPool)}

QueryNames == {Zinc, <<"z","i","n","c"," ">>, Iron, <<"Z","i","n">>, Neon, <<"R","a","d","o","n">>}

AlternativesRequests ==
    { [op |-> "find_drug_alternatives", drug_name |-> n] : n \in QueryNames }

FindDrugAlternatives ==
    /\ request.op = "find_drug_alternatives"
    /\ ~response.done
    /\ \E tie \in {"scroll", "reverse"} :
            response' = Returned(find_drug_alternatives(vector_index,
                                                        request.drug_name, tie))
    /\ UNCHANGED <<ingestVars, vector_index, request>>

SpecSimilar ==
    LookupInit({EmptyGraph}, SmallIndexes, AlternativesRequests)
        /\ [][FindDrugAlternatives]_vars

Filler(n) == [k \in 1..n |-> Point(Xenon, 60)]

\* collections in which the point named Zinc lies behind the first page
LongIndexes ==
    { Filler(ScrollLimit) \o <<Point(Zinc, 10)>>,
      <<Point(ZincOxide, 13)>> \o Filler(ScrollLimit - 1) \o <<Point(Zinc, 10)>>,
      Filler(ScrollLimit - 1) \o <<Point(Zinc, 10)>> }

VectorRequests ==
    { [op |-> "_get_entity_vector", entity_name |-> n] : n \in QueryNames }

GetEntityVector ==
    /\ request.op = "_get_entity_vector"
    /\ ~response.done
    /\ response' = Returned(get_entity_vector(vector_index, request.entity_name))
    /\ UNCHANGED <<ingestVars, vector_index, request>>

SpecVector ==
    LookupInit({EmptyGraph}, SmallIndexes \cup LongIndexes, VectorRequests)
        /\ [][GetEntityVector]_vars

\* positions of the index whose drug_name equals the name, ignoring case
ExactMatches(index, name) ==
    {k \in DOMAIN index : LowerStrip(index[k].drug_name) = LowerStrip(name)}

\* positions whose drug_name contains the name or is contained in it
PartialMatches(index, name) ==
    {k \in DOMAIN index :
        \/ Contains(LowerStrip(index[k].drug_name), LowerStrip(name))
        \/ Contains(LowerStrip(name), LowerStrip(index[k].drug_name))}

(***************************************************************************)
(* C17: if a stored record, at any position of the index, has a drug_name  *)
(* equal to the query ignoring case, _get_entity_vector returns the vector *)
(* of such a record; only when no record matches exactly does it return    *)
(* the vector of the first record that matches partially.                  *)
(***************************************************************************)
C17_ExactMatchAnywhere ==
    (request.op = "_get_entity_vector" /\ response.done) =>
        LET exact == ExactMatches(vector_index, request.entity_name)
            partial == PartialMatches(vector_index, request.entity_name)
        IN  /\ exact # {} =>
                /\ response.value.found
                /\ \E k \in exact : response.value.vector = vector_index[k].vector
            /\ (exact = {} /\ response.value.found) =>
                \E k \in partial :
                    /\ \A j \in partial : k <= j
                    /\ response.value.vector = vector_index[k].vector

(***************************************************************************)
(* Relationships of a single entity: resolution of the name, then the      *)
(* edges of the resolved node.                                             *)
(***************************************************************************)
\* mutant: no tier is preferred
entity_priority_flat(e, entity_name) == 3

\* lines 256-261: ORDER BY CASE ... END
entity_priority(e, entity_name) ==
    IF LowerStr(e.name) = LowerStr(entity_name) THEN 1
    ELSE IF LowerStr(e.id) = LowerStr(entity_name) THEN 2
    ELSE 3

\* lines 251-254: MATCH (e:Drug) WHERE ...
entity_candidates(g, entity_name) ==
    { e \in Range(g.drugs) :
        \/ LowerStr(e.name) = LowerStr(entity_name)
        \/ LowerStr(e.id) = LowerStr(entity_name)
        \/ Contains(LowerStr(e.name), LowerStr(entity_name)) }

\* lines 250-267: the rows the store may return for ORDER BY ... LIMIT 1
entity_search_query(g, entity_name) ==
    { e \in entity_candidates(g, entity_name) :
        \A o \in entity_candidates(g, entity_name) :
            entity_priority(e, entity_name) <= entity_priority(o, entity_name) }

NullReaction == [reaction_id |-> NullText]

\* mutant: a node is also matched as its own neighbour
distinct_nodes_any(target, other) == TRUE

\* lines 287, 304: WHERE target <> other
distinct_nodes(target, other) == target # other

\* lines 284-315: the rows of the relationship query, before LIMIT; the typed
\* and the untyped pattern both end in a Drug node, so both follow the
\* INTERACTS_WITH edges
single_entity_query(g, found_entity_name) ==
    LET targets == { m \in Range(g.drugs) \X Range(g.drugs) \X DOMAIN g.interacts :
                        /\ LowerStr(m[1].name) = LowerStr(found_entity_name)
                        /\ distinct_nodes(m[1], m[2])
                        /\ \/ g.interacts[m[3]].a = m[1].id /\ g.interacts[m[3]].b = m[2].id
                           \/ g.interacts[m[3]].a = m[2].id /\ g.interacts[m[3]].b = m[1].id }
        row(m, reaction) ==
            [edge |-> m[3],
             entity1 |-> [name |-> m[1].name, id |-> m[1].id],
             entity2 |-> [name |-> m[2].name, id |-> m[2].id],
             relationship_type |-> INTERACTS_WITH,
             relationship_properties |-> [description |-> g.interacts[m[3]].description],
             reaction |-> reaction]
        rows(m) ==
            IF SharedReactions(g, m[1].id, m[2].id) = {}
            THEN {row(m, NullReaction)}
            ELSE {row(m, [reaction_id |-> rx.id,
                          normalized_description |-> rx.normalized_desc,
                          example_description |-> rx.example]) :
                    rx \in SharedReactions(g, m[1].id, m[2].id)}
    IN  UNION {rows(m) : m \in targets}

\* lines 340-353
single_relationship_info(record) ==
    [entity1 |-> record.entity1, entity2 |-> record.entity2,
     relationship_type |-> record.relationship_type,
     relationship_properties |-> record.relationship_properties,
     reaction |-> record.reaction]

\* lines 269-274
EntityNotFound ==
    [success |-> FALSE, error |-> "Entity not found in graph database",
     relationships |-> <<>>]

\* lines 276-364, for the resolved entity and the rows the store returned
get_single_entity_relationships(entity_name, entity_record, result) ==
    [success |-> TRUE, query_entity |-> entity_name,
     found_entity |-> entity_record.name,
     relationships_count |-> Len(result),
     relationships |-> [k \in DOMAIN result |-> single_relationship_info(result[k])]]

D1X == <<"D","1","X">>

\* drug rows whose names and ids overlap
RowOxideZinc == <<D3, ZincOxide, D1, Zinc, <<"Z","i","n","c"," ","O","x","i","d","e"," ","b","i","n","d","s"," ","Z","i","n","c",".">>>>

RowNamedD2 == <<D1, D2, D2, Zinc, <<"D","2"," ","b","i","n","d","s"," ","Z","i","n","c",".">>>>

RowD1X == <<D3, D1X, D1, Zinc, <<"D","1","X"," ","b","i","n","d","s"," ","Z","i","n","c",".">>>>

ResolveInputs ==
    { <<RowOxideZinc>>, <<RowNamedD2>>, <<RowD1X>>,
      <<RowOxideZinc, RowZincIron>>, <<RowZincIron, RowIronZinc, RowZincIron2>> }

ResolveGraphs == { UninterruptedRun(d, 1).g : d \in ResolveInputs }

EntityNames ==
    { <<"z","i","n","c">>, <<"Z","I","N","C"," ","O","X","I","D","E">>, <<"d","2">>, D1, <<"Z","i","n">>, <<"Z","i","n","c","s">>, <<"R","a","d","o","n">>, Iron }

SingleRequests ==
    { [op |-> "extract_relationships_of", entity_name |-> n,
       relationship_type |-> t, limit |-> l] :
        n \in EntityNames, t \in {INTERACTS_WITH, ""}, l \in {1, 20} }

\* lines 224-228 with entity_name given, and lines 246-364
ExtractRelationshipsOf ==
    /\ request.op = "extract_relationships_of"
    /\ ~response.done
    /\ IF entity_search_query(graph, request.entity_name) = {}
       THEN response' = Returned(EntityNotFound)
       ELSE \E entity_record \in entity_search_query(graph, request.entity_name) :
            \E result \in QueryResults(
                    single_entity_query(graph, entity_record.name), request.limit) :
                response' = Returned(get_single_entity_relationships(
                                request.entity_name, entity_record, result))
    /\ UNCHANGED <<ingestVars, vector_index, request>>

SpecResolve ==
    LookupInit(ResolveGraphs, {<<>>}, SingleRequests) /\ [][ExtractRelationshipsOf]_vars

NameEquals(g, q) == {e \in Range(g.drugs) : LowerStr(e.name) = LowerStr(q)}

IdEquals(g, q) == {e \in Range(g.drugs) : LowerStr(e.id) = LowerStr(q)}

NameContainsQuery(g, q) ==
    {e \in Range(g.drugs) : Contains(LowerStr(e.name), LowerStr(q))}

QueryContainsName(g, q) ==
    {e \in Range(g.drugs) : Contains(LowerStr(q), LowerStr(e.name))}

(***************************************************************************)
(* C15: resolution priority in the graph store.  If a Drug node's name     *)
(* equals the query ignoring case, the resolved node is such a node;       *)
(* otherwise, if a node's id equals the query ignoring case, the resolved  *)
(* node is such a node; a node that matches only as a substring is         *)
(* resolved only when no node matches exactly by name or by id.            *)
(***************************************************************************)
C15_ResolutionPriority ==
    (request.op = "extract_relationships_of" /\ response.done) =>
        LET q == request.entity_name
            byName == NameEquals(graph, q)
            byId == IdEquals(graph, q)
        IN  /\ byName # {} =>
                /\ response.value.success
                /\ \E e \in byName : e.name = response.value.found_entity
            /\ (byName = {} /\ byId # {}) =>
                /\ response.value.success
                /\ \E e \in byId : e.name = response.value.found_entity
            /\ (/\ response.value.success
                /\ \A e \in byName \cup byId : e.name # response.value.found_entity)
                    => byName \cup byId = {}

\* a node matches by name while another matches by id or as a substring,
\* and the node with the equal name was resolved
C15_Witness ==
    /\ request.op = "extract_relationships_of"
    /\ response.done
    /\ response.value.success
    /\ NameEquals(graph, request.entity_name) # {}
    /\ (IdEquals(graph, request.entity_name)
            \cup NameContainsQuery(graph, request.entity_name))
         \ NameEquals(graph, request.entity_name) # {}
    /\ LowerStr(response.value.found_entity) = LowerStr(request.entity_name)

(***************************************************************************)
(* C16: the substring tier matches in both directions.  When no node       *)
(* matches the query exactly by name or by id, a Drug node whose name is   *)
(* contained in the query is resolved just as a node whose name contains   *)
(* the query is; not-found is reported only when neither direction         *)
(* matches a node.                                                         *)
(***************************************************************************)
C16_SubstringBothDirections ==
    (request.op = "extract_relationships_of" /\ response.done) =>
        LET q == request.entity_name
            either == NameContainsQuery(graph, q) \cup QueryContainsName(graph, q)
        IN  (NameEquals(graph, q) \cup IdEquals(graph, q) = {}) =>
                /\ either # {} =>
                    /\ response.value.success
                    /\ \E e \in either : e.name = response.value.found_entity
                /\ either = {} => ~response.value.success

(***************************************************************************)
(* Failures of save_checkpoint.                                            *)
(***************************************************************************)
\* what CHECKPOINT_FILE holds when lines 36-37 raise: the old content when
\* open() fails, a cut text when the write fails after open() emptied the file
FailedSaveFiles ==
    {checkpoint,
     Truncated(checkpoint_data(batch_end, stats, reaction_map, reaction_counter))}

\* lines 35-40, 318-319: save_checkpoint raises inside its try block; the
\* exception is printed and the loop goes on with the next batch
SaveCheckpointFails ==
    /\ pc = "save"
    /\ checkpoint' \in FailedSaveFiles
    /\ batch_start' = batch_end
    /\ pc' = "loop"
    /\ UNCHANGED <<inputVars, lookupVars, graph, start_index, stats, reaction_map,
                   reaction_counter, total_errors, tx, retries, runs, committed>>

\* the process is killed while json.dump is writing (line 37)
CrashDuringSave ==
    /\ pc = "save"
    /\ checkpoint' =
            Truncated(checkpoint_data(batch_end, stats, reaction_map, reaction_counter))
    /\ pc' = "stopped"
    /\ ResetLocals
    /\ UNCHANGED <<inputVars, lookupVars, graph, runs, committed>>

\* imports whose checkpoint writes may fail or be cut short and whose batches
\* may fail, then run again and resumed where a checkpoint can be read
NextSave ==
    \/ Ingest
    \/ ResumeFromCheckpoint
    \/ SaveCheckpointFails
    \/ CrashDuringSave
    \/ BatchFails
    \/ RerunAfterStop

SpecSave == Init /\ [][NextSave]_vars

(***************************************************************************)
(* C18: a checkpoint save is all-or-nothing as seen by load.  A step of    *)
(* save_checkpoint either persists the full new snapshot or fails visibly  *)
(* to its caller (the import does not go on to the next batch), and after  *)
(* it load_checkpoint returns the complete new snapshot or what it         *)
(* returned before, never less.                                            *)
(***************************************************************************)
C18_SaveAllOrNothing ==
    [][pc = "save" =>
        LET new == checkpoint_data(batch_end, stats, reaction_map, reaction_counter)
        IN  /\ load_checkpoint(checkpoint') \in {new, load_checkpoint(checkpoint)}
            /\ pc' = "loop" => checkpoint' = new]_vars

(***************************************************************************)
(* C19: when the checkpoint file exists but is corrupt, the import starts  *)
(* as it does without a checkpoint: at offset 0 with zeroed counters, an   *)
(* empty reaction_map and reaction_counter = 1, and neither answer to the  *)
(* resume question is taken.                                               *)
(***************************************************************************)
C19_CorruptCheckpointStartsFresh ==
    [][(pc = "import" /\ IsCorrupt(checkpoint) /\ pc' # "stopped") =>
        /\ pc' = "loop"
        /\ start_index' = 0
        /\ batch_start' = 0
        /\ stats' = NewStats(Len(data))
        /\ reaction_map' = EmptyMap
        /\ reaction_counter' = 1
        /\ checkpoint' = checkpoint]_vars

\* a run has started at offset 0 on a corrupt checkpoint that an earlier run
\* left behind after committing a batch
C19_Witness ==
    /\ pc = "loop"
    /\ IsCorrupt(checkpoint)
    /\ runs >= 2
    /\ committed >= 1
    /\ start_index = 0
    /\ batch_start = 0

(***************************************************************************)
(* Runs that stop only inside a batch.                                     *)
(***************************************************************************)
\* lines 343-346: the operator interrupts the run while process_batch is
\* running; the transaction is rolled back and the function returns
InterruptBatch == pc = "batch" /\ Crash

\* imports stopped by a failed or interrupted batch, then resumed
NextFail ==
    \/ Ingest
    \/ ResumeFromCheckpoint
    \/ BatchFails
    \/ InterruptBatch
    \/ RerunAfterStop

SpecFail == Init /\ [][NextFail]_vars

CrashThenRerun == runs < MaxRuns /\ Crash

\* a batch fails for good while the operator can still start the script again
BatchFailsThenRerun == runs < MaxRuns /\ BatchFails

NextLive ==
    \/ Ingest
    \/ ResumeFromCheckpoint
    \/ RetryBatch
    \/ CrashThenRerun
    \/ BatchFailsThenRerun
    \/ RerunAfterStop

\* the script is sequential: a process that is not killed takes its next
\* step, and a stopped script is started again
Progress ==
    \/ DatabaseEmpty
    \/ KeepDatabase
    \/ StartFresh
    \/ ResumeFromCheckpoint
    \/ BeginBatch
    \/ CommitBatch
    \/ SaveCheckpoint
    \/ Finish
    \/ RerunAfterStop

\* where the script stands: its step and, inside a batch, the record reached
Position == <<pc, IF pc = "batch" THEN tx.i ELSE 0>>

\* process_batch has a record left: ProcessRecord is enabled
RecordLeft == pc = "batch" /\ tx.i < Len(batch_data)

\* weak fairness of ProcessRecord, its enabling condition written out
FairProcessRecord == []<><<ProcessRecord>>_Position \/ []<>~RecordLeft

\* inputs over three kinds of record, one of them failing in process_batch
LiveInputs ==
    UNION {[1..n -> {RowZincIron, RowZincIron2, RowShort}] : n \in 1..MaxLen}

SpecLive ==
    InitWith(LiveInputs) /\ [][NextLive]_vars /\ WF_Position(Progress) /\ FairProcessRecord

(***************************************************************************)
(* C21: when crashes and failing transactions stop after finitely many     *)
(* and the operator always resumes, the import of a finite input           *)
(* eventually ends with every batch committed, and whenever the import     *)
(* has ended the checkpoint file is gone: load_checkpoint returns None.    *)
(***************************************************************************)
C21_EventuallyCompletes ==
    /\ <>(pc = "done" /\ committed = Len(data))
    /\ [](pc = "done" =>
            /\ committed = Len(data)
            /\ ~Truthy(load_checkpoint(checkpoint)))

\* the import has ended after the last run the operator could start, which
\* resumed inside the input; no checkpoint file is left
C21_Witness ==
    /\ pc = "done"
    /\ runs = MaxRuns
    /\ start_index >= 1
    /\ committed = Len(data)
    /\ checkpoint = NoFile

(***************************************************************************)
(* Imports that nothing interrupts, over inputs that hold records whose    *)
(* unpacking at lines 164-165 fails.                                       *)
(***************************************************************************)
SpecSkip == Init /\ [][IngestOnce]_vars

\* the records of d that unpack into five fields
WellFormed(record) == Len(record) = 5

Valid(d) == SelectSeq(d, WellFormed)

StoreErrors == {"ServiceUnavailable", "Connection refused"}

\* mutant: the handler lets the exception through to the caller
extraction_reraised(e) == [raised |-> e]

\* crossdb.py lines 238-244: the except branch of extract_relationships
extraction_failed(e) == [success |-> FALSE, error |-> e, relationships |-> <<>>]

\* crossdb.py lines 164-170: the except branch of find_similar_entities
search_failed(e) == [success |-> FALSE, error |-> e, results |-> <<>>]

FailureGraphs == {EmptyGraph, UninterruptedRun(<<RowOxideZinc, RowZincIron>>, 1).g}

FailureIndexes == {SubSeq(PointPool, 1, n) : n \in {0, 3, 6}}

SimilarRequests ==
    { [op |-> "find_similar_entities", entity_name |-> n, limit |-> l,
       score_threshold |-> t] :
        n \in QueryNames, l \in {1, 10}, t \in {0, 50} }

\* lines 107-162: find_similar_entities(entity_name=...) with both stores up
FindSimilarEntities ==
    /\ request.op = "find_similar_entities"
    /\ ~response.done
    /\ \E tie \in {"scroll", "reverse"} :
            response' = Returned(find_similar_entities(vector_index,
                            request.entity_name, request.limit,
                            request.score_threshold, tie))
    /\ UNCHANGED <<ingestVars, vector_index, request>>

\* lines 177-182 raise: _get_entity_vector logs and returns None (198-201),
\* which find_similar_entities reports as not found
ScrollRaises ==
    /\ request.op = "find_similar_entities"
    /\ ~response.done
    /\ response' = Returned(EntityVectorNotFound)
    /\ UNCHANGED <<ingestVars, vector_index, request>>

\* lines 135-140 raise after the entity's vector was found
SearchRaises ==
    /\ request.op = "find_similar_entities"
    /\ ~response.done
    /\ get_entity_vector(vector_index, request.entity_name).found
    /\ \E e \in StoreErrors : response' = Returned(search_failed(e))
    /\ UNCHANGED <<ingestVars, vector_index, request>>

\* the session or one of the two session.run calls raises (lines 223, 266,
\* 317): session.run is an auto-commit query, the driver does not run it again
ExtractRelationshipsRaises ==
    /\ request.op = "extract_relationships_of"
    /\ ~response.done
    /\ \E e \in StoreErrors : response' = Returned(extraction_failed(e))
    /\ UNCHANGED <<ingestVars, vector_index, request>>

NextFailure ==
    \/ ExtractRelationshipsOf
    \/ ExtractRelationshipsRaises
    \/ FindSimilarEntities
    \/ ScrollRaises
    \/ SearchRaises

SpecFailure ==
    LookupInit(FailureGraphs, FailureIndexes, SingleRequests \cup SimilarRequests)
        /\ [][NextFailure]_vars

\* the list of a result, under the key its function uses
ResultList(value) ==
    IF request.op = "find_similar_entities" THEN value.results
    ELSE value.relationships

\* a failure result: success = false, an error text, an empty list
IsFailure(value) ==
    /\ value.success = FALSE
    /\ value.error # ""
    /\ ResultList(value) = <<>>

(***************************************************************************)
(* C23: extract_relationships(entity_name) and find_similar_entities       *)
(* always return a result to the caller, never an exception.  For an       *)
(* entity that is not resolved the result is a failure: success = false,   *)
(* an error text and an empty list.  A store that raises during a query    *)
(* gives a failure result too, returned by the step in which the query     *)
(* failed, with no second attempt.                                         *)
(***************************************************************************)
C23_NotFoundIsAResult ==
    /\ [](response.done =>
            /\ "success" \in DOMAIN response.value
            /\ ~response.value.success => IsFailure(response.value)
            /\ (/\ request.op = "extract_relationships_of"
                /\ entity_search_query(graph, request.entity_name) = {})
                    => IsFailure(response.value)
            /\ (/\ request.op = "find_similar_entities"
                /\ ~get_entity_vector(vector_index, request.entity_name).found)
                    => IsFailure(response.value))
    /\ [][(ExtractRelationshipsRaises \/ ScrollRaises \/ SearchRaises)
            => (response'.done /\ IsFailure(response'.value))]_vars

\* an entity in neither store: "Radon" has been looked up in a graph and in
\* an index that hold other drugs
C23_Witness ==
    /\ response.done
    /\ request.entity_name = <<"R","a","d","o","n">>
    /\ Len(graph.drugs) >= 1 \/ Len(vector_index) >= 1
    /\ ~response.value.success
    /\ response.value.error \in {"Entity not found in graph database",
                                 "Entity not found in vector database"}

\* a step inside one call of import_to_neo4j_with_recovery
SameRun ==
    /\ pc \in {"loop", "batch", "save"}
    /\ pc' \in {"loop", "batch", "save"}

RowSelf == <<D1, Zinc, D1, Zinc, <<"Z","i","n","c"," ","b","i","n","d","s"," ","Z","i","n","c",".">>>>

EdgeInputs ==
    { <<RowSelf>>, <<RowGoldZinc>>, <<RowSelf, RowGoldZinc, RowZincIron>>,
      <<RowZincIron, RowIronZinc, RowGoldZinc>> }

EdgeGraphs == { UninterruptedRun(d, 1).g : d \in EdgeInputs }

SpecEdges ==
    LookupInit(EdgeGraphs, {<<>>}, SingleRequests) /\ [][ExtractRelationshipsOf]_vars

\* the INTERACTS_WITH edges of g between two different nodes, one of them id
EdgesOf(g, id) ==
    { k \in DOMAIN g.interacts :
        /\ g.interacts[k].a # g.interacts[k].b
        /\ id \in {g.interacts[k].a, g.interacts[k].b} }

\* the endpoint of edge k of g that is not id
OtherEnd(g, k, id) ==
    IF g.interacts[k].a = id THEN g.interacts[k].b ELSE g.interacts[k].a

StartsWithCheckpoint ==
    /\ pc = "import"
    /\ pc' = "loop"
    /\ Truthy(load_checkpoint(checkpoint))

\* the operator answered 'y': the file is still there
ResumeStep == StartsWithCheckpoint /\ checkpoint' = checkpoint

\* the operator answered 'n'
RestartStep == StartsWithCheckpoint /\ checkpoint' # checkpoint

C27_DrugsCreatedIsNodeCount ==
    pc = "done" => stats.drugs_created = Len(graph.drugs)

(***************************************************************************)
(* C28: when an import that started from an empty graph has ended, after   *)
(* any kills and resumed runs, also a kill between a batch's commit and    *)
(* its save_checkpoint, the final stats.interactions_created is the number *)
(* of INTERACTS_WITH edges in the graph.                                   *)
(***************************************************************************)
C28_InteractionsCreatedIsEdgeCount ==
    pc = "done" => stats.interactions_created = Len(graph.interacts)

\* the unordered pairs of names among entity_names whose Drug nodes are
\* joined by an INTERACTS_WITH edge, in either direction
JoinedPairs(g, entity_names) ==
    LET lowered == {LowerStr(entity_names[k]) : k \in DOMAIN entity_names}
    IN  { {m[1].name, m[2].name} :
            m \in { x \in Range(g.drugs) \X Range(g.drugs) :
                        /\ x[1].name # x[2].name
                        /\ LowerStr(x[1].name) \in lowered
                        /\ LowerStr(x[2].name) \in lowered
                        /\ HasEdge(g, x[1].id, x[2].id) \/ HasEdge(g, x[2].id, x[1].id) } }

(***************************************************************************)
(* C29: extract_relationships(entity_names, type, limit) returns           *)
(* min(limit, P) records, P being the number of unordered pairs of the     *)
(* given names that an edge joins: rows that repeat a pair (the edge of    *)
(* the other direction, a further shared reaction) take no place of the    *)
(* limit away from another pair.                                           *)
(***************************************************************************)
C29_LimitCountsPairs ==
    (request.op = "extract_relationships" /\ response.done
        /\ response.value.success) =>
        Len(response.value.relationships)
            = Min(request.limit, Cardinality(JoinedPairs(graph, request.entity_names)))

(***************************************************************************)
(* Graphs in which two Drug nodes with different ids carry one name, up to *)
(* the case of the letters.                                                *)
(***************************************************************************)
\* D3 is named Zinc as D1 is
RowTwin == <<D3, Zinc, D2, Iron, <<"Z","i","n","c"," ","b","i","n","d","s"," ","I","r","o","n",".">>>>

\* D3 is named ZINC
RowTwinUpper == <<D3, <<"Z","I","N","C">>, D2, Iron, <<"Z","I","N","C"," ","b","i","n","d","s"," ","I","r","o","n",".">>>>

TwinInputs ==
    { <<RowZincIron, RowTwin>>, <<RowZincIron, RowTwinUpper>>,
      <<RowGoldZinc, RowTwin>> }

TwinGraphs == { UninterruptedRun(d, 1).g : d \in TwinInputs }

SpecTwins ==
    LookupInit(TwinGraphs, {<<>>}, SingleRequests) /\ [][ExtractRelationshipsOf]_vars

(***************************************************************************)
(* C30: in the result of extract_relationships(entity_name) every record's *)
(* entity1 is the one node that the entity query resolved, with its id,    *)
(* also when other Drug nodes carry the same name up to case and also when *)
(* the node was found by its id: no edge of another node comes back.       *)
(***************************************************************************)
C30_OnlyResolvedNode ==
    (request.op = "extract_relationships_of" /\ response.done
        /\ response.value.success) =>
        \E e \in entity_search_query(graph, request.entity_name) :
            \A k \in DOMAIN response.value.relationships :
                response.value.relationships[k].entity1 = e

=============================================================================
